---- MODULE Spec2Model ----
(***************************************************************************)
(* Agent orchestration of SaffronAssistant: one AgentSession driven by the *)
(* AgentManager, its PermissionManager, ToolExecutor and ToolRegistry.     *)
(* A step of the model is one macrotask of the Node event loop: the code   *)
(* that runs between two real suspension points (a provider stream chunk,  *)
(* an approval decision, the settling of a tool handler).                  *)
(***************************************************************************)
EXTENDS Integers, Sequences, FiniteSets, TLC

\* ---- bounds of the model ----
MaxTurns == 2        \* sendMessage calls made on the session
MaxCalls == 2        \* tool_use blocks in one model response
MaxIds == 2          \* tool calls the provider emits over the whole run
MaxAborts == 1       \* abort() calls
maxIterations == 2   \* AgentSessionConfig.max_iterations of the session
MaxText == 1         \* text deltas in one model response
MaxSessions == 11    \* session ids the manager generates
MaxTokens == 2       \* input tokens, and output tokens, of one model response
MaxPayload == 2      \* input_json_delta fragments of one tool_use block
MaxPeerIds == 2      \* tool calls the provider emits for the second session

\* AppConfig.agents.maxConcurrent
maxConcurrentAgents == 10

\* AppConfig.ai.pricing, dollars per million tokens
inputPer1M == 3
outputPer1M == 15

Turns == 1..MaxTurns

\* ---- the tools the model may name ----
\* Registered tools (ToolRegistry.tools) and the risk level they register with.
Registered == {"calculator", "read_note", "write_note", "execute_code", "screenshot"}

ToolNames == Registered \cup {"unknown_tool"}

risk_level(name) ==
    CASE name = "calculator" -> "safe"
      [] name = "read_note" -> "safe"
      [] name = "screenshot" -> "safe"
      [] name = "write_note" -> "moderate"
      [] name = "execute_code" -> "dangerous"
      [] OTHER -> "none"

\* AgentProfile.tool_permissions of the session's profile; "none" is a name
\* the profile does not list. The profile may list names no tool registers.
tool_permissions(name) ==
    CASE name = "calculator" -> "always"
      [] name = "execute_code" -> "ask"
      [] name = "screenshot" -> "never"
      [] name = "unknown_always" -> "always"
      [] name = "unknown_never" -> "never"
      [] OTHER -> "none"

OrigInput == "orig"          \* the input the model emitted
ModifiedInput == "modified"  \* ApprovalResponse.modified_input

\* ---- ToolRegistry ----
has(name) == name \in Registered

\* ToolRegistry.getPermission(name).risk_level
getPermission(name) == risk_level(name)

\* ---- PermissionManager.checkPermission, up to the point where it prompts ----
PermissionLevel(name) ==
    IF tool_permissions(name) = "none" THEN "ask" ELSE tool_permissions(name)

RiskLevel(name) ==
    IF has(name) THEN getPermission(name) ELSE "moderate"

\* Variants of checkPermission with one branch wrong.
checkPermissionNoNever(name, auto) ==
    IF PermissionLevel(name) = "always" THEN "allowed"
    ELSE IF auto /\ RiskLevel(name) = "safe" THEN "allowed"
    ELSE IF ~has(name) THEN "throw"
    ELSE "prompt"

checkPermissionNoAlways(name, auto) ==
    IF PermissionLevel(name) = "never" THEN "denied"
    ELSE IF auto /\ RiskLevel(name) = "safe" THEN "allowed"
    ELSE IF ~has(name) THEN "throw"
    ELSE "prompt"

checkPermissionAutoAnyRisk(name, auto) ==
    IF PermissionLevel(name) = "always" THEN "allowed"
    ELSE IF PermissionLevel(name) = "never" THEN "denied"
    ELSE IF auto THEN "allowed"
    ELSE IF ~has(name) THEN "throw"
    ELSE "prompt"

\* "allowed" | "denied" | "prompt" (promptUser is entered) | "throw"
\* (getToolDefinition throws Unknown tool)
checkPermission(name, auto) ==
    IF PermissionLevel(name) = "always" THEN "allowed"
    ELSE IF PermissionLevel(name) = "never" THEN "denied"
    ELSE IF auto /\ RiskLevel(name) = "safe" THEN "allowed"
    ELSE IF ~has(name) THEN "throw"
    ELSE "prompt"

\* ---- ToolExecutor ----
ToolResult(id, ok, err) == [tool_call_id |-> id, success |-> ok, error |-> err]

\* executeToolCall: the handler's outcome ("ok" | "fail") becomes a ToolResult
executeToolCall(id, outcome) ==
    IF outcome = "ok" THEN ToolResult(id, TRUE, "") ELSE ToolResult(id, FALSE, "handler")

\* Variant of executeParallel: one failure fails the whole batch.
executeParallelFailFast(ids, outcomes) ==
    [k \in 1..Len(ids) |->
        IF \E j \in 1..Len(ids) : outcomes[j] # "ok"
        THEN ToolResult(ids[k], FALSE, "Execution failed")
        ELSE executeToolCall(ids[k], outcomes[k])]

\* executeParallel: Promise.allSettled keeps the input order
executeParallel(ids, outcomes) ==
    [k \in 1..Len(ids) |-> executeToolCall(ids[k], outcomes[k])]

\* ---- AgentSession: result assembly of one round ----
\* Variant of DeniedResult: a denial is stored as a success.
DeniedResultSucceeds(id) == ToolResult(id, TRUE, "")

DeniedResult(id) == ToolResult(id, FALSE, "Permission denied by user")

\* resultMap: denied results first, executed results set afterwards
resultMap(denied, executed) ==
    [id \in {denied[k] : k \in 1..Len(denied)} \cup
            {executed[k].tool_call_id : k \in 1..Len(executed)} |->
        IF \E k \in 1..Len(executed) : executed[k].tool_call_id = id
        THEN LET k == CHOOSE k \in 1..Len(executed) : executed[k].tool_call_id = id
             IN executed[k]
        ELSE DeniedResult(id)]

\* Variant of toolResults: denied results first, then the executed ones.
toolResultsDeniedFirst(toolCalls, denied, executed) ==
    [k \in 1..Len(denied) |-> DeniedResult(denied[k])] \o executed

\* toolResults: one result per call of the response, in the order received
toolResults(toolCalls, denied, executed) ==
    [k \in 1..Len(toolCalls) |-> resultMap(denied, executed)[toolCalls[k]]]


\* ---- state ----
VARIABLES
    calls,               \* the ToolCall objects the provider emitted; the id is the index
    turns,               \* per sendMessage: the frame of executeTurnStreaming
    conversationHistory, \* AgentSession.conversationHistory
    turnCount,           \* AgentSession.turnCount
    abortController,     \* AgentSession.abortController: 0 = null, else the turn that made it
    status,              \* AgentSession.status
    autoApproveSafe,     \* PermissionManager.autoApproveSafe
    pendingApprovals,    \* PermissionManager.pendingApprovals, in insertion order (ids)
    listeners,           \* ids with a listener on 'agent:tool-approval-response'
    approvalRequests,    \* ids sent on 'agent:tool-approval-request'
    events,              \* per turn: the StreamEvents yielded so far
    invoked,             \* handler invocations: <<id, input>> pairs
    gate,                \* per id: how the permission check went (history)
    completionOrder,     \* ids in the order their handlers settled (history)
    aborts,              \* abort() calls made so far
    totalTokens,         \* AgentSession.totalTokens
    totalCost,           \* AgentSession.totalCost, in millionths of a dollar
    saveFails,           \* the store's saveConversation throws when called
    initialized,         \* AgentManager.initialized
    activeAgents,        \* AgentManager.activeAgents: the ids of the live sessions
    generated,           \* session ids generated so far (AgentSession.generateId)
    emitted,             \* per notification and session id: times it was emitted
    lastCall,            \* the last call on the manager and how it ended (history)
    tools,               \* ToolRegistry.tools of a registry under construction
    lastRegister,        \* the last register call and how it ended (history)
    persisted,           \* per session id: times a termination saved its transcript
    peer                 \* a second live session and its permission manager

\* The session and its permission manager.
sessionVars == <<calls, turns, conversationHistory, turnCount, abortController, status,
                 autoApproveSafe, pendingApprovals, listeners, approvalRequests, events,
                 invoked, gate, completionOrder, aborts, totalTokens, totalCost>>

\* The manager's own state.
managerVars == <<initialized, activeAgents, generated, emitted, lastCall, persisted>>

\* A tool registry being filled by register calls.
registryVars == <<tools, lastRegister>>

\* The second session.
peerVars == <<peer>>

vars == <<sessionVars, saveFails, managerVars, registryVars, peerVars>>

\* ---- helpers ----
SeqToSet(q) == {q[k] : k \in 1..Len(q)}

RECURSIVE Without(_, _)
Without(q, x) ==
    IF q = <<>> THEN <<>>
    ELSE IF Head(q) = x THEN Without(Tail(q), x)
    ELSE <<Head(q)>> \o Without(Tail(q), x)

Message(role, t, content, tcs, trs) ==
    [role |-> role, turn |-> t, content |-> content, tool_calls |-> tcs, tool_results |-> trs]

StreamEvent(type, id, ok) == [type |-> type, id |-> id, ok |-> ok, error |-> ""]

\* An error event; error is what its text is about: "provider" (the streaming
\* client's catch), "parse" (a tool_use payload that is no JSON text),
\* "max_iterations" (the turn loop) or "exception" (the message of what the
\* manager caught).
ErrorEvent(error) == [type |-> "error", id |-> 0, ok |-> FALSE, error |-> error]

\* What saveSession reads of the session.
Snapshot(S) == [hist |-> S.hist, totalTokens |-> S.totalTokens, totalCost |-> S.totalCost]

NoSnapshot == [hist |-> <<>>, totalTokens |-> 0, totalCost |-> 0]

NewTurn ==
    [pc |-> "new", outcome |-> "none", aborted |-> FALSE, toolCalls |-> <<>>,
     idx |-> 0, approvedCalls |-> <<>>, deniedResults |-> <<>>,
     exec |-> <<>>, executedResults |-> <<>>, iterations |-> 0,
     turnText |-> <<>>,     \* the text deltas accumulated from the current response
     modelCalls |-> 0,      \* streamWithTools calls made by the turn (history)
     streamErrors |-> 0,    \* error events streamWithTools yielded (history)
     saveFailed |-> FALSE,  \* saveSession threw at the end of the turn (history)
     notified |-> <<>>,     \* what the manager emitted for the turn (history)
     usages |-> <<>>,       \* the usage events the turn received, in order
     accounted |-> 0,       \* how many of them the last cost update had seen (history)
     blocks |-> <<>>,       \* the tool_use blocks of the turn's responses, in order
     beforeSave |-> NoSnapshot]  \* the session when a failing saveSession was called (history)

NoGate == [auto |-> FALSE, verdict |-> "unchecked", via |-> "none"]

\* The part of the state the turn loop reads and writes, threaded through the
\* code that runs within one macrotask.
Cur ==
    [calls |-> calls, turns |-> turns, hist |-> conversationHistory,
     ac |-> abortController, status |-> status, pending |-> pendingApprovals,
     listeners |-> listeners, requests |-> approvalRequests, events |-> events,
     invoked |-> invoked, gate |-> gate, totalTokens |-> totalTokens,
     totalCost |-> totalCost]

\* The state the step ends in (S is bound to its value once).
Install(S0) ==
    \E S \in {S0} :
        /\ calls' = S.calls
        /\ turns' = S.turns
        /\ conversationHistory' = S.hist
        /\ abortController' = S.ac
        /\ status' = S.status
        /\ pendingApprovals' = S.pending
        /\ listeners' = S.listeners
        /\ approvalRequests' = S.requests
        /\ events' = S.events
        /\ invoked' = S.invoked
        /\ gate' = S.gate
        /\ totalTokens' = S.totalTokens
        /\ totalCost' = S.totalCost

Yield(S, t, ev) == [S EXCEPT !.events[t] = Append(@, ev)]

Push(S, msg) == [S EXCEPT !.hist = Append(@, msg)]

\* A notification of the manager (EventEmitter.emit); at is the number of
\* StreamEvents the turn had yielded when it was emitted.
Notification(name, st, at) == [name |-> name, status |-> st, at |-> at]

Emit(S, t, name, st) ==
    [S EXCEPT !.turns[t].notified = Append(@, Notification(name, st, Len(S.events[t])))]

\* ---- AgentManager.sendMessageStreaming: what follows the turn's generator ----
\* Variant of ManagerCatch: the catch block emits no notification.
ManagerCatchSilent(S, t) ==
    Yield([S EXCEPT !.turns[t].pc = "done", !.status = "idle"], t, ErrorEvent("exception"))

\* The catch block: status idle, the two notifications and one error event for
\* the consumer.
ManagerCatch(S, t) ==
    LET S1 == Emit([S EXCEPT !.turns[t].pc = "done", !.status = "idle"],
                   t, "agent:status-change", "idle")
    IN Yield(Emit(S1, t, "agent:error", ""), t, ErrorEvent("exception"))

\* Variant of ManagerDone: a failed save takes back the turn's last Message.
ManagerDoneRollsBack(S, t, how) ==
    LET S1 == Emit([S EXCEPT !.turns[t].pc = "done", !.turns[t].outcome = how,
                             !.status = "idle"],
                   t, "agent:status-change", "idle")
    IN IF saveFails /\ 1 \in activeAgents
       THEN ManagerCatch([S1 EXCEPT !.turns[t].saveFailed = TRUE,
                                    !.turns[t].beforeSave = Snapshot(S1),
                                    !.hist = SubSeq(@, 1, Len(@) - 1)], t)
       ELSE S1

\* The generator returned: status idle, then saveSession, whose exception (the
\* store's saveConversation is synchronous) lands in the same catch block.
\* saveSession only reads the session, and returns at once when the session
\* (id 1 in the manager) is no longer live.
ManagerDone(S, t, how) ==
    LET S1 == Emit([S EXCEPT !.turns[t].pc = "done", !.turns[t].outcome = how,
                             !.status = "idle"],
                   t, "agent:status-change", "idle")
    IN IF saveFails /\ 1 \in activeAgents
       THEN ManagerCatch([S1 EXCEPT !.turns[t].saveFailed = TRUE,
                                    !.turns[t].beforeSave = Snapshot(S1)], t)
       ELSE S1

\* The generator threw.
ManagerThrow(S, t) == ManagerCatch([S EXCEPT !.turns[t].outcome = "threw"], t)

\* ---- AgentSession.executeTurnStreaming ----
\* Variant of LoopHead: the loop is left at the limit without an error event.
LoopHeadSilentLimit(S, t) ==
    IF S.turns[t].iterations < maxIterations
    THEN IF S.turns[t].aborted
         THEN ManagerDone(S, t, "aborted")
         ELSE [S EXCEPT !.turns[t].pc = "stream", !.turns[t].toolCalls = <<>>,
                        !.turns[t].turnText = <<>>, !.turns[t].modelCalls = @ + 1]
    ELSE ManagerDone([S EXCEPT !.ac = 0], t, "maxiter")

\* Head of the while loop, reached with hasToolCalls = TRUE.
LoopHead(S, t) ==
    IF S.turns[t].iterations < maxIterations
    THEN IF S.turns[t].aborted
         THEN ManagerDone(S, t, "aborted")
         ELSE [S EXCEPT !.turns[t].pc = "stream", !.turns[t].toolCalls = <<>>,
                        !.turns[t].turnText = <<>>, !.turns[t].modelCalls = @ + 1]
    ELSE ManagerDone(Yield([S EXCEPT !.ac = 0], t, ErrorEvent("max_iterations")),
                     t, "maxiter")

RECURSIVE YieldResults(_, _, _)
YieldResults(S, t, rs) ==
    IF rs = <<>> THEN S
    ELSE YieldResults(Yield(S, t, StreamEvent("tool_result", Head(rs).tool_call_id,
                                              Head(rs).success)),
                      t, Tail(rs))

\* The executions are joined: assemble, emit and store the round's results.
EmitResults(S, t) ==
    LET f == S.turns[t]
        executed == executeParallel(f.approvedCalls, f.exec)
        rs == toolResults(f.toolCalls, f.deniedResults, executed)
        S1 == YieldResults(S, t, rs)
        S2 == Push(S1, Message("tool", t, <<>>, <<>>, rs))
    IN LoopHead([S2 EXCEPT !.turns[t].iterations = @ + 1,
                           !.turns[t].executedResults = executed], t)

\* ToolRegistry.execute for the approved calls: a registered tool's handler is
\* invoked with the call's current input; an unknown name throws at once. With
\* no approved call executeParallel is not called.
StartExec(S, t) ==
    LET f == S.turns[t]
        ids == f.approvedCalls
        ex == [k \in 1..Len(ids) |->
                 IF has(S.calls[ids[k]].name) THEN "running" ELSE "fail"]
        S1 == [S EXCEPT !.turns[t].exec = ex,
                        !.invoked = @ \cup {<<ids[k], S.calls[ids[k]].input>> :
                                              k \in {j \in 1..Len(ids) : ex[j] = "running"}}]
    IN IF \E k \in 1..Len(ids) : ex[k] = "running"
       THEN [S1 EXCEPT !.turns[t].pc = "exec"]
       ELSE EmitResults(S1, t)

\* Variant of PermLoop: the handler of an allowed call is invoked as soon as
\* its own check has resolved.
RECURSIVE PermLoopExecutesAtOnce(_, _, _, _)
PermLoopExecutesAtOnce(S, t, i, auto) ==
    LET f == S.turns[t] IN
    IF i > Len(f.toolCalls) THEN StartExec(S, t)
    ELSE IF f.aborted THEN ManagerDone(S, t, "aborted")
    ELSE
      LET id == f.toolCalls[i]
          v == checkPermission(S.calls[id].name, auto)
      IN CASE v = "allowed" ->
                PermLoopExecutesAtOnce(
                    [S EXCEPT !.turns[t].approvedCalls = Append(@, id),
                              !.invoked = @ \cup {<<id, S.calls[id].input>>},
                              !.gate[id] = [auto |-> auto, verdict |-> "allowed",
                                            via |-> "class"]],
                    t, i + 1, auto)
           [] v = "denied" ->
                PermLoopExecutesAtOnce(
                    [S EXCEPT !.turns[t].deniedResults = Append(@, id),
                              !.gate[id] = [auto |-> auto, verdict |-> "denied",
                                            via |-> "class"]],
                    t, i + 1, auto)
           [] v = "throw" ->
                ManagerThrow([S EXCEPT !.gate[id] = [auto |-> auto, verdict |-> "threw",
                                                     via |-> "class"]], t)
           [] OTHER ->
                [S EXCEPT !.turns[t].pc = "wait", !.turns[t].idx = i,
                          !.pending = Append(@, id),
                          !.requests = Append(@, id),
                          !.listeners = @ \cup {id},
                          !.gate[id] = [auto |-> auto, verdict |-> "pending",
                                        via |-> "prompt"]]

\* The sequential permission loop, from call i on, until a prompt suspends it.
RECURSIVE PermLoop(_, _, _, _)
PermLoop(S, t, i, auto) ==
    LET f == S.turns[t] IN
    IF i > Len(f.toolCalls) THEN StartExec(S, t)
    ELSE IF f.aborted THEN ManagerDone(S, t, "aborted")
    ELSE
      LET id == f.toolCalls[i]
          v == checkPermission(S.calls[id].name, auto)
      IN CASE v = "allowed" ->
                PermLoop([S EXCEPT !.turns[t].approvedCalls = Append(@, id),
                                   !.gate[id] = [auto |-> auto, verdict |-> "allowed",
                                                 via |-> "class"]],
                         t, i + 1, auto)
           [] v = "denied" ->
                PermLoop([S EXCEPT !.turns[t].deniedResults = Append(@, id),
                                   !.gate[id] = [auto |-> auto, verdict |-> "denied",
                                                 via |-> "class"]],
                         t, i + 1, auto)
           [] v = "throw" ->
                ManagerThrow([S EXCEPT !.gate[id] = [auto |-> auto, verdict |-> "threw",
                                                     via |-> "class"]], t)
           [] OTHER ->
                [S EXCEPT !.turns[t].pc = "wait", !.turns[t].idx = i,
                          !.pending = Append(@, id),
                          !.requests = Append(@, id),
                          !.listeners = @ \cup {id},
                          !.gate[id] = [auto |-> auto, verdict |-> "pending",
                                        via |-> "prompt"]]

\* Lines 198-199: the round's approvedCalls and deniedResults start empty.
StartPermLoop(S, t, auto) ==
    PermLoop([S EXCEPT !.turns[t].idx = 0, !.turns[t].approvedCalls = <<>>,
                       !.turns[t].deniedResults = <<>>, !.turns[t].exec = <<>>,
                       !.turns[t].executedResults = <<>>],
             t, 1, auto)

\* AgentSession.calculateCost, in millionths of a dollar.
calculateCost(usage) == usage.input_tokens * inputPer1M + usage.output_tokens * outputPer1M

RECURSIVE SumUsage(_)
SumUsage(q) ==
    IF q = <<>> THEN [input_tokens |-> 0, output_tokens |-> 0]
    ELSE [input_tokens |-> Head(q).input_tokens + SumUsage(Tail(q)).input_tokens,
          output_tokens |-> Head(q).output_tokens + SumUsage(Tail(q)).output_tokens]

\* "Update total cost", lines 173-178: totalInputTokens and totalOutputTokens
\* are locals of the turn that the usage events of all its responses add to.
UpdateTotalCost(S, t) ==
    LET total == SumUsage(S.turns[t].usages)
    IN [S EXCEPT !.totalTokens = @ + total.input_tokens + total.output_tokens,
                 !.totalCost = @ + calculateCost(total),
                 !.turns[t].accounted = Len(S.turns[t].usages)]

\* Variant of AfterStream: a final response without text appends no Message.
AfterStreamSkipsEmptyText(S0, t, auto) ==
    LET S == UpdateTotalCost(S0, t)
        f == S.turns[t] IN
    IF Len(f.toolCalls) > 0
    THEN LET S1 == Push(S, Message("assistant", t, f.turnText, f.toolCalls, <<>>))
         IN IF f.aborted THEN ManagerDone(S1, t, "aborted")
            ELSE StartPermLoop(S1, t, auto)
    ELSE ManagerDone(
             Yield([(IF f.turnText = <<>> THEN S
                     ELSE Push(S, Message("assistant", t, f.turnText, <<>>, <<>>)))
                      EXCEPT !.ac = 0],
                   t, StreamEvent("usage", 0, TRUE)),
             t, "success")

\* The code after the for-await over the provider stream.
AfterStream(S0, t, auto) ==
    LET S == UpdateTotalCost(S0, t)
        f == S.turns[t] IN
    IF Len(f.toolCalls) > 0
    THEN LET S1 == Push(S, Message("assistant", t, f.turnText, f.toolCalls, <<>>))
         IN IF f.aborted THEN ManagerDone(S1, t, "aborted")
            ELSE StartPermLoop(S1, t, auto)
    ELSE ManagerDone(
             Yield([Push(S, Message("assistant", t, f.turnText, <<>>, <<>>)) EXCEPT !.ac = 0],
                   t, StreamEvent("usage", 0, TRUE)),
             t, "success")

\* ---- ClaudeAPIService.streamWithTools: its catch block ----
\* Variant of streamCatch: an abort is reported like any other failure.
streamCatchReportsAbort(aborted) == "error"

\* "return": the sequence ends silently; "error": it ends with an error event.
streamCatch(aborted) == IF aborted THEN "return" ELSE "error"

\* The provider's stream threw (a fault, or the abort of the signal): what the
\* catch block yields, what the for-await body does with it, and the code after
\* the loop.
OnStreamThrow(S, t, auto) ==
    IF streamCatch(S.turns[t].aborted) = "return" THEN AfterStream(S, t, auto)
    ELSE LET S1 == [S EXCEPT !.turns[t].streamErrors = @ + 1]
         IN IF S.turns[t].aborted THEN ManagerDone(S1, t, "aborted")
            ELSE AfterStream(Yield(S1, t, ErrorEvent("provider")), t, auto)

\* Variant of Resolve: the checks that follow use the flag as the first check
\* of the round found it.
ResolveCachedFlag(S, t, verdict, via, auto) ==
    LET f == S.turns[t]
        id == f.toolCalls[f.idx]
        S1 == [S EXCEPT !.gate[id].verdict = verdict, !.gate[id].via = via]
        S2 == IF verdict = "allowed"
              THEN [S1 EXCEPT !.turns[t].approvedCalls = Append(@, id)]
              ELSE [S1 EXCEPT !.turns[t].deniedResults = Append(@, id)]
    IN PermLoop(S2, t, f.idx + 1, S.gate[f.toolCalls[1]].auto)

\* promptUser's promise resolved for the call the turn waits on.
Resolve(S, t, verdict, via, auto) ==
    LET f == S.turns[t]
        id == f.toolCalls[f.idx]
        S1 == [S EXCEPT !.gate[id].verdict = verdict, !.gate[id].via = via]
        S2 == IF verdict = "allowed"
              THEN [S1 EXCEPT !.turns[t].approvedCalls = Append(@, id)]
              ELSE [S1 EXCEPT !.turns[t].deniedResults = Append(@, id)]
    IN PermLoop(S2, t, f.idx + 1, auto)


\* The turn whose permission loop is suspended on the request with this id.
WaitingTurn(S, id) ==
    CHOOSE t \in Turns : /\ S.turns[t].pc = "wait"
                         /\ S.turns[t].toolCalls[S.turns[t].idx] = id

\* Variant of OnResponse: a modified response leaves the call's input alone.
OnResponseKeepsInput(S, id, type, auto) ==
    LET S1 == [S EXCEPT !.listeners = @ \ {id}, !.pending = Without(@, id)]
    IN IF S.gate[id].verdict # "pending" THEN S1
       ELSE Resolve(S1, WaitingTurn(S, id),
                    IF type = "denied" THEN "denied" ELSE "allowed", type, auto)

\* Variant of OnTimeout: the response listener stays registered.
OnTimeoutKeepsListener(S, id, auto) ==
    Resolve([S EXCEPT !.pending = Without(@, id)],
            WaitingTurn(S, id), "denied", "timeout", auto)

\* Variant of OnTimeout: the entry and the listener are removed but the promise
\* of the prompt is left unresolved.
OnTimeoutNeverResolves(S, id, auto) ==
    [S EXCEPT !.listeners = @ \ {id}, !.pending = Without(@, id)]

\* ---- PermissionManager.promptUser: the ways its promise resolves ----
\* The response listener: a response for this id arrived.
OnResponse(S, id, type, auto) ==
    LET S1 == [S EXCEPT !.listeners = @ \ {id}, !.pending = Without(@, id)]
        S2 == IF type = "modified" THEN [S1 EXCEPT !.calls[id].input = ModifiedInput]
              ELSE S1
    IN IF S.gate[id].verdict # "pending" THEN S2   \* resolve() of a settled promise
       ELSE Resolve(S2, WaitingTurn(S, id),
                    IF type = "denied" THEN "denied" ELSE "allowed", type, auto)

\* The setTimeout callback, for an id that is still pending.
OnTimeout(S, id, auto) ==
    Resolve([S EXCEPT !.listeners = @ \ {id}, !.pending = Without(@, id)],
            WaitingTurn(S, id), "denied", "timeout", auto)

\* PermissionManager.abortAll: every pending request resolves as denied.
RECURSIVE abortAll(_, _)
abortAll(S, auto) ==
    IF S.pending = <<>> THEN S
    ELSE LET id == Head(S.pending)
         IN abortAll(Resolve([S EXCEPT !.listeners = @ \ {id}, !.pending = Tail(@)],
                             WaitingTurn(S, id), "denied", "abort", auto),
                     auto)

\* ---- AgentManager and ToolRegistry: values ----
SessionIds == 1..MaxSessions

\* AGENT_PROFILES has the one profile "general".
ProfileIds == {"general", "no_such_profile"}

getProfile(profileId) == IF profileId = "general" THEN "general" ELSE "throw"

NoneEmitted == [created |-> [id \in SessionIds |-> 0], terminated |-> [id \in SessionIds |-> 0]]

\* found: the session the call names was live (FALSE only for a terminateAgent
\* that returned at once).
Call(op, profile, id, threw, seq) ==
    [op |-> op, profile |-> profile, id |-> id, threw |-> threw, seq |-> seq,
     found |-> TRUE]

NoCall == Call("none", "", 0, FALSE, 0)

\* The Tool objects handed to register: two implementations under each name.
Tools == [name : Registered, impl : {"first", "second"}]

NoRegister == [name |-> "", impl |-> "", threw |-> FALSE, seq |-> 0]

\* ---- initial state: a live session, no turn yet ----
\* ---- a second AgentSession, with a PermissionManager of its own ----
\* Its model asks for one execute_code call per response; the ids of its calls
\* differ from the first session's.
PeerIds == (MaxIds + 1)..(MaxIds + MaxPeerIds)

NewPeer == [pc |-> "idle", status |-> "idle", turnCount |-> 0,
            conversationHistory |-> <<>>,
            pendingApprovals |-> {}, listeners |-> {}, issued |-> 0,
            verdict |-> [id \in PeerIds |-> "none"]]

\* The promise of promptUser resolves in the second session: a denied call gets
\* its failed result at once, an allowed one is handed to the executor.
PeerResolve(P, id, verdict) ==
    LET P1 == [P EXCEPT !.listeners = @ \ {id}, !.pendingApprovals = @ \ {id},
                        !.verdict[id] = verdict]
    IN IF verdict = "allowed" THEN [P1 EXCEPT !.pc = "exec"]
       ELSE [P1 EXCEPT !.pc = "stream", !.conversationHistory = Append(@, "tool")]

\* The second session's response listener: it acts on its own call's id only.
peerListener(P, id, type) ==
    IF id \in P.listeners
    THEN PeerResolve(P, id, IF type = "denied" THEN "denied" ELSE "allowed")
    ELSE P

Init ==
    /\ calls = <<>>
    /\ turns = [t \in Turns |-> NewTurn]
    /\ conversationHistory = <<>>
    /\ turnCount = 0
    /\ abortController = 0
    /\ status = "idle"
    /\ autoApproveSafe = FALSE
    /\ pendingApprovals = <<>>
    /\ listeners = {}
    /\ approvalRequests = <<>>
    /\ events = [t \in Turns |-> <<>>]
    /\ invoked = {}
    /\ gate = <<>>
    /\ completionOrder = <<>>
    /\ aborts = 0
    /\ totalTokens = 0
    /\ totalCost = 0
    /\ saveFails = FALSE
    /\ initialized = TRUE
    /\ activeAgents = {1}
    /\ generated = 1
    /\ emitted = [NoneEmitted EXCEPT !.created[1] = 1]
    /\ lastCall = NoCall
    /\ persisted = [id \in SessionIds |-> 0]
    /\ peer = NewPeer
    /\ tools = <<>>
    /\ lastRegister = NoRegister

\* ---- operations ----
\* AgentManager.sendMessageStreaming -> AgentSession.executeTurnStreaming, up to
\* the first await on the provider stream. Nothing in it looks at a turn that
\* is already running.
SendMessage(t) ==
    /\ 1 \in activeAgents
    /\ turns[t].pc = "new"
    /\ \A u \in Turns : u < t => turns[u].pc # "new"
    /\ Install(LoopHead(Push([Emit([Cur EXCEPT !.status = "thinking"],
                                   t, "agent:status-change", "thinking")
                                EXCEPT !.ac = t],
                             Message("user", t, <<"input">>, <<>>, <<>>)), t))
    /\ turnCount' = turnCount + 1
    /\ UNCHANGED <<autoApproveSafe, completionOrder, aborts>>
    /\ UNCHANGED <<saveFails, managerVars, registryVars, peerVars>>

\* sendMessageStreaming for a session that is not live: one error event for the
\* consumer, and the session is not touched.
SendMessageNotFound(t) ==
    /\ 1 \notin activeAgents
    /\ turns[t].pc = "new"
    /\ \A u \in Turns : u < t => turns[u].pc # "new"
    /\ Install(Yield([Cur EXCEPT !.turns[t].pc = "done", !.turns[t].outcome = "not_found"],
                      t, ErrorEvent("not_found")))
    /\ UNCHANGED <<turnCount, autoApproveSafe, completionOrder, aborts>>
    /\ UNCHANGED <<saveFails, managerVars, registryVars, peerVars>>

\* A tool_call event of the provider stream reaches the for-await body. (Text
\* deltas only add to the text of the assistant Message and are left out.)
StreamToolCall(t, name) ==
    /\ turns[t].pc = "stream"
    /\ ~turns[t].aborted
    /\ Len(turns[t].toolCalls) < MaxCalls
    /\ Len(calls) < MaxIds
    /\ LET id == Len(calls) + 1
       IN Install(Yield([Cur EXCEPT !.calls = Append(@, [name |-> name, input |-> OrigInput]),
                                    !.gate = Append(@, NoGate),
                                    !.turns[t].toolCalls = Append(@, id)],
                        t, StreamEvent("tool_call", id, TRUE)))
    /\ UNCHANGED <<turnCount, autoApproveSafe, completionOrder, aborts>>
    /\ UNCHANGED <<saveFails, managerVars, registryVars, peerVars>>

\* An event arrives although the signal is aborted: the body returns at once.
StreamEventAfterAbort(t) ==
    /\ turns[t].pc = "stream"
    /\ turns[t].aborted
    /\ Install(ManagerDone(Cur, t, "aborted"))
    /\ UNCHANGED <<turnCount, autoApproveSafe, completionOrder, aborts>>
    /\ UNCHANGED <<saveFails, managerVars, registryVars, peerVars>>

\* A text delta of the provider stream reaches the for-await body.
StreamText(t) ==
    /\ turns[t].pc = "stream"
    /\ ~turns[t].aborted
    /\ Len(turns[t].turnText) < MaxText
    /\ Install(Yield([Cur EXCEPT !.turns[t].turnText = Append(@, "text")],
                     t, StreamEvent("text", 0, TRUE)))
    /\ UNCHANGED <<turnCount, autoApproveSafe, completionOrder, aborts>>
    /\ UNCHANGED <<saveFails, managerVars, registryVars, peerVars>>

\* ---- ClaudeAPIService.streamWithTools: tool_use blocks ----
\* The partial_json fragments the provider may send.
Fragments == {"{", "}"}

\* JSON.parse on a text made of these fragments: "{}" is the only one that is
\* a JSON text; every other one throws.
JSONparse(payload) == IF payload = <<"{", "}">> THEN "{}" ELSE "throw"

\* Variant of toolUseInput: a payload that does not parse counts as empty.
toolUseInputLenient(payload) ==
    IF payload # <<>> /\ JSONparse(payload) # "throw" THEN JSONparse(payload) ELSE "{}"

\* block.accumulatedInput ? JSON.parse(block.accumulatedInput) : {}
toolUseInput(payload) == IF payload # <<>> THEN JSONparse(payload) ELSE "{}"

\* A ContentBlockState of type tool_use; response is the model call it belongs
\* to (contentBlocks is a new Map in every streamWithTools call).
ContentBlockState(id, response) ==
    [id |-> id, response |-> response, accumulatedInput |-> <<>>, stopped |-> FALSE]

\* The block of the current response that is being built, if any.
OpenBlock(t) ==
    /\ turns[t].blocks # <<>>
    /\ ~turns[t].blocks[Len(turns[t].blocks)].stopped
    /\ turns[t].blocks[Len(turns[t].blocks)].response = turns[t].modelCalls

\* content_block_start of a tool_use block: the provider names the call's id
\* and tool.
BlockStart(t, name) ==
    /\ turns[t].pc = "stream"
    /\ ~turns[t].aborted
    /\ ~OpenBlock(t)
    /\ Len(calls) < MaxIds
    /\ LET id == Len(calls) + 1
       IN Install([Cur EXCEPT !.calls = Append(@, [name |-> name, input |-> "unparsed"]),
                              !.gate = Append(@, NoGate),
                              !.turns[t].blocks =
                                  Append(@, ContentBlockState(id, turns[t].modelCalls))])
    /\ UNCHANGED <<turnCount, autoApproveSafe, completionOrder, aborts>>
    /\ UNCHANGED <<saveFails, managerVars, registryVars, peerVars>>

\* content_block_delta with an input_json_delta.
BlockDelta(t, fragment) ==
    /\ turns[t].pc = "stream"
    /\ ~turns[t].aborted
    /\ OpenBlock(t)
    /\ Len(turns[t].blocks[Len(turns[t].blocks)].accumulatedInput) < MaxPayload
    /\ Install([Cur EXCEPT !.turns[t].blocks[Len(turns[t].blocks)].accumulatedInput =
                               Append(@, fragment)])
    /\ UNCHANGED <<turnCount, autoApproveSafe, completionOrder, aborts>>
    /\ UNCHANGED <<saveFails, managerVars, registryVars, peerVars>>

\* content_block_stop: the client yields a tool_call event or, when the
\* payload does not parse, an error event; the for-await body of the turn
\* collects the call or passes the error on.
BlockStop(t) ==
    /\ turns[t].pc = "stream"
    /\ ~turns[t].aborted
    /\ OpenBlock(t)
    /\ LET n == Len(turns[t].blocks)
           block == turns[t].blocks[n]
           input == toolUseInput(block.accumulatedInput)
           S1 == [Cur EXCEPT !.turns[t].blocks[n].stopped = TRUE]
       IN IF input = "throw"
          THEN Install(Yield(S1, t, ErrorEvent("parse")))
          ELSE Install(Yield([S1 EXCEPT !.calls[block.id].input = input,
                                        !.turns[t].toolCalls = Append(@, block.id)],
                             t, StreamEvent("tool_call", block.id, TRUE)))
    /\ UNCHANGED <<turnCount, autoApproveSafe, completionOrder, aborts>>
    /\ UNCHANGED <<saveFails, managerVars, registryVars, peerVars>>

\* The usage event of message_stop reaches the for-await body.
Usages == [input_tokens : 1..MaxTokens, output_tokens : 1..MaxTokens]

StreamUsage(t, usage) ==
    /\ turns[t].pc = "stream"
    /\ ~turns[t].aborted
    /\ Len(turns[t].usages) < turns[t].modelCalls
    /\ Install([Cur EXCEPT !.turns[t].usages = Append(@, usage)])
    /\ UNCHANGED <<turnCount, autoApproveSafe, completionOrder, aborts>>
    /\ UNCHANGED <<saveFails, managerVars, registryVars, peerVars>>

\* The provider stream is exhausted (also: it ended silently on abort).
StreamEnd(t) ==
    /\ turns[t].pc = "stream"
    /\ Install(AfterStream(Cur, t, autoApproveSafe))
    /\ UNCHANGED <<turnCount, autoApproveSafe, completionOrder, aborts>>
    /\ UNCHANGED <<saveFails, managerVars, registryVars, peerVars>>

\* The provider's stream throws while the turn awaits its next event.
StreamThrow(t) ==
    /\ turns[t].pc = "stream"
    /\ Install(OnStreamThrow(Cur, t, autoApproveSafe))
    /\ UNCHANGED <<turnCount, autoApproveSafe, completionOrder, aborts>>
    /\ UNCHANGED <<saveFails, managerVars, registryVars, peerVars>>

\* Variant of ipcResponse: the listener does not compare approval_id with the
\* id of its own call.
ipcResponseUnfiltered(S, id, type, auto) ==
    IF S.listeners # {}
    THEN OnResponse(S, CHOOSE x \in S.listeners : TRUE, type, auto)
    ELSE S

\* The renderer sends 'agent:tool-approval-response' with approval_id = id.
ipcResponse(S, id, type, auto) ==
    IF id \in S.listeners THEN OnResponse(S, id, type, auto) ELSE S

\* ipcMain hands it to every registered listener, of whichever session.
ApprovalResponse(id, type) ==
    /\ id \in 1..Len(calls) \/ id \in MaxIds + 1..MaxIds + peer.issued
    /\ Install(ipcResponse(Cur, id, type, autoApproveSafe))
    /\ peer' = peerListener(peer, id, type)
    /\ UNCHANGED <<turnCount, autoApproveSafe, completionOrder, aborts>>
    /\ UNCHANGED <<saveFails, managerVars, registryVars>>

\* AppConfig.tools.userResponseTimeoutMs elapsed for the prompt of id.
ApprovalTimeout(id) ==
    /\ id \in SeqToSet(pendingApprovals)
    /\ Install(OnTimeout(Cur, id, autoApproveSafe))
    /\ UNCHANGED <<turnCount, autoApproveSafe, completionOrder, aborts>>
    /\ UNCHANGED <<saveFails, managerVars, registryVars, peerVars>>

\* The handler of the k-th approved call settles; the last one joins the round.
HandlerSettle(t, k, outcome) ==
    /\ turns[t].pc = "exec"
    /\ k \in 1..Len(turns[t].exec)
    /\ turns[t].exec[k] = "running"
    /\ LET S1 == [Cur EXCEPT !.turns[t].exec[k] = outcome]
       IN IF \E j \in 1..Len(S1.turns[t].exec) : S1.turns[t].exec[j] = "running"
          THEN Install(S1)
          ELSE Install(EmitResults(S1, t))
    /\ completionOrder' = Append(completionOrder, turns[t].approvedCalls[k])
    /\ UNCHANGED <<turnCount, autoApproveSafe, aborts>>
    /\ UNCHANGED <<saveFails, managerVars, registryVars, peerVars>>

\* Variant of Abort: the pending approvals are left alone.
AbortSignalOnly ==
    /\ aborts < MaxAborts
    /\ LET S1 == IF abortController # 0
                 THEN [Cur EXCEPT !.turns[abortController].aborted = TRUE, !.ac = 0]
                 ELSE Cur
       IN Install([S1 EXCEPT !.status = "idle"])
    /\ aborts' = aborts + 1
    /\ UNCHANGED <<turnCount, autoApproveSafe, completionOrder>>
    /\ UNCHANGED <<saveFails, managerVars, registryVars, peerVars>>

\* AgentSession.abort
Abort ==
    /\ aborts < MaxAborts
    /\ LET S1 == IF abortController # 0
                 THEN [Cur EXCEPT !.turns[abortController].aborted = TRUE, !.ac = 0]
                 ELSE Cur
       IN Install(abortAll([S1 EXCEPT !.status = "idle"], autoApproveSafe))
    /\ aborts' = aborts + 1
    /\ UNCHANGED <<turnCount, autoApproveSafe, completionOrder>>
    /\ UNCHANGED <<saveFails, managerVars, registryVars, peerVars>>

\* AgentManager.setAutoApproveSafe -> PermissionManager.setAutoApproveSafe
SetAutoApproveSafe(enabled) ==
    /\ autoApproveSafe' = enabled
    /\ UNCHANGED <<calls, turns, conversationHistory, turnCount, abortController, status,
                   pendingApprovals, listeners, approvalRequests, events, invoked, gate,
                   completionOrder, aborts, totalTokens, totalCost>>
    /\ UNCHANGED <<saveFails, managerVars, registryVars, peerVars>>

\* The store starts or stops failing.
DatabaseFault(fails) ==
    /\ fails # saveFails
    /\ saveFails' = fails
    /\ UNCHANGED <<sessionVars, managerVars, registryVars, peerVars>>

\* ---- the second session's turn ----
PeerStep(P) ==
    /\ peer' = P
    /\ UNCHANGED <<sessionVars, saveFails, managerVars, registryVars>>

\* sendMessageStreaming on the second session.
PeerSendMessage ==
    /\ peer.pc = "idle"
    /\ peer.turnCount < MaxTurns
    /\ PeerStep([peer EXCEPT !.pc = "stream", !.status = "thinking",
                             !.turnCount = @ + 1,
                             !.conversationHistory = Append(@, "user")])

\* Its model response ends with one execute_code call: the assistant Message is
\* stored and the permission check prompts for the call.
PeerStreamToolCall ==
    /\ peer.pc = "stream"
    /\ peer.issued < MaxPeerIds
    /\ checkPermission("execute_code", FALSE) = "prompt"
    /\ LET id == MaxIds + peer.issued + 1
       IN PeerStep([peer EXCEPT !.pc = "wait", !.issued = @ + 1,
                                !.conversationHistory = Append(@, "assistant"),
                                !.pendingApprovals = @ \cup {id},
                                !.listeners = @ \cup {id}])

\* The timeout of its prompt.
PeerApprovalTimeout(id) ==
    /\ id \in peer.pendingApprovals
    /\ PeerStep(PeerResolve(peer, id, "denied"))

\* The handler of its approved call settles.
PeerHandlerSettle ==
    /\ peer.pc = "exec"
    /\ PeerStep([peer EXCEPT !.pc = "stream",
                             !.conversationHistory = Append(@, "tool")])

\* Its model response has no tool call: the turn ends.
PeerStreamEnd ==
    /\ peer.pc = "stream"
    /\ PeerStep([peer EXCEPT !.pc = "idle", !.status = "idle",
                             !.conversationHistory = Append(@, "assistant")])

\* ---- AgentManager ----
Called(op, profile, id, threw) ==
    lastCall' = Call(op, profile, id, threw, 1 - lastCall.seq)

initialize ==
    /\ initialized' = TRUE
    /\ Called("initialize", "", 0, FALSE)
    /\ UNCHANGED <<activeAgents, generated, emitted, persisted>>
    /\ UNCHANGED <<sessionVars, saveFails, registryVars, peerVars>>

\* Variant of createAgent: the cap is compared with > instead of >=.
createAgentCapOffByOne(profileId) ==
    /\ IF \/ ~initialized
          \/ Cardinality(activeAgents) > maxConcurrentAgents
          \/ getProfile(profileId) = "throw"
       THEN /\ Called("createAgent", profileId, 0, TRUE)
            /\ UNCHANGED <<activeAgents, generated, emitted>>
       ELSE /\ generated < MaxSessions
            /\ generated' = generated + 1
            /\ activeAgents' = activeAgents \cup {generated + 1}
            /\ emitted' = [emitted EXCEPT !.created[generated + 1] = @ + 1]
            /\ Called("createAgent", profileId, generated + 1, FALSE)
    /\ UNCHANGED <<initialized, persisted>>
    /\ UNCHANGED <<sessionVars, saveFails, registryVars, peerVars>>

\* Variant of createAgent: the session is stored before the profile is looked up.
createAgentStoresFirst(profileId) ==
    /\ IF ~initialized \/ Cardinality(activeAgents) >= maxConcurrentAgents
       THEN /\ Called("createAgent", profileId, 0, TRUE)
            /\ UNCHANGED <<activeAgents, generated, emitted>>
       ELSE /\ generated < MaxSessions
            /\ generated' = generated + 1
            /\ activeAgents' = activeAgents \cup {generated + 1}
            /\ IF getProfile(profileId) = "throw"
               THEN /\ Called("createAgent", profileId, 0, TRUE)
                    /\ UNCHANGED emitted
               ELSE /\ emitted' = [emitted EXCEPT !.created[generated + 1] = @ + 1]
                    /\ Called("createAgent", profileId, generated + 1, FALSE)
    /\ UNCHANGED <<initialized, persisted>>
    /\ UNCHANGED <<sessionVars, saveFails, registryVars, peerVars>>

createAgent(profileId) ==
    /\ IF \/ ~initialized
          \/ Cardinality(activeAgents) >= maxConcurrentAgents
          \/ getProfile(profileId) = "throw"
       THEN /\ Called("createAgent", profileId, 0, TRUE)
            /\ UNCHANGED <<activeAgents, generated, emitted>>
       ELSE /\ generated < MaxSessions
            /\ generated' = generated + 1
            /\ activeAgents' = activeAgents \cup {generated + 1}
            /\ emitted' = [emitted EXCEPT !.created[generated + 1] = @ + 1]
            /\ Called("createAgent", profileId, generated + 1, FALSE)
    /\ UNCHANGED <<initialized, persisted>>
    /\ UNCHANGED <<sessionVars, saveFails, registryVars, peerVars>>

\* Variant of terminateAgent: a session that is not live is saved, deleted and
\* announced all the same.
terminateAgentUnchecked(agentId) ==
    /\ IF saveFails
       THEN /\ Called("terminateAgent", "", agentId, TRUE)
            /\ UNCHANGED <<activeAgents, emitted, persisted>>
       ELSE /\ persisted' = [persisted EXCEPT ![agentId] = @ + 1]
            /\ activeAgents' = activeAgents \ {agentId}
            /\ emitted' = [emitted EXCEPT !.terminated[agentId] = @ + 1]
            /\ lastCall' = [Call("terminateAgent", "", agentId, FALSE, 1 - lastCall.seq)
                               EXCEPT !.found = agentId \in activeAgents]
    /\ UNCHANGED <<initialized, generated>>
    /\ UNCHANGED <<sessionVars, saveFails, registryVars, peerVars>>

\* saveSession runs to its end within the call: the store is synchronous, so
\* the delete and the notification follow in the same task and no other call on
\* the manager runs in between.
terminateAgent(agentId) ==
    /\ IF agentId \notin activeAgents
       THEN /\ lastCall' = [Call("terminateAgent", "", agentId, FALSE, 1 - lastCall.seq)
                               EXCEPT !.found = FALSE]
            /\ UNCHANGED <<activeAgents, emitted, persisted>>
       ELSE IF saveFails
       THEN /\ Called("terminateAgent", "", agentId, TRUE)
            /\ UNCHANGED <<activeAgents, emitted, persisted>>
       ELSE /\ persisted' = [persisted EXCEPT ![agentId] = @ + 1]
            /\ activeAgents' = activeAgents \ {agentId}
            /\ emitted' = [emitted EXCEPT !.terminated[agentId] = @ + 1]
            /\ Called("terminateAgent", "", agentId, FALSE)
    /\ UNCHANGED <<initialized, generated>>
    /\ UNCHANGED <<sessionVars, saveFails, registryVars, peerVars>>

\* terminateAgent for every live session at once: each call runs up to its
\* await of saveSession, then the continuations run one by one; a call whose
\* save threw rejects before its delete and makes Promise.all reject.
terminateAll ==
    /\ IF saveFails
       THEN /\ Called("terminateAll", "", 0, activeAgents # {})
            /\ UNCHANGED <<activeAgents, emitted, persisted>>
       ELSE /\ persisted' = [id \in SessionIds |-> IF id \in activeAgents
                                                     THEN persisted[id] + 1
                                                     ELSE persisted[id]]
            /\ activeAgents' = {}
            /\ emitted' = [emitted EXCEPT !.terminated =
                              [id \in SessionIds |-> IF id \in activeAgents THEN @[id] + 1
                                                     ELSE @[id]]]
            /\ Called("terminateAll", "", 0, FALSE)
    /\ UNCHANGED <<initialized, generated>>
    /\ UNCHANGED <<sessionVars, saveFails, registryVars, peerVars>>

\* ---- ToolRegistry.register ----
\* Variant of register: a name already present is silently overwritten.
registerOverwrites(tool) ==
    /\ tools' = [n \in DOMAIN tools \cup {tool.name} |->
                    IF n = tool.name THEN tool ELSE tools[n]]
    /\ lastRegister' = [name |-> tool.name, impl |-> tool.impl, threw |-> FALSE,
                        seq |-> 1 - lastRegister.seq]
    /\ UNCHANGED <<sessionVars, saveFails, managerVars, peerVars>>

register(tool) ==
    /\ IF tool.name \in DOMAIN tools
       THEN /\ tools' = tools
            /\ lastRegister' = [name |-> tool.name, impl |-> tool.impl, threw |-> TRUE,
                                seq |-> 1 - lastRegister.seq]
       ELSE /\ tools' = [n \in DOMAIN tools \cup {tool.name} |->
                            IF n = tool.name THEN tool ELSE tools[n]]
            /\ lastRegister' = [name |-> tool.name, impl |-> tool.impl, threw |-> FALSE,
                                seq |-> 1 - lastRegister.seq]
    /\ UNCHANGED <<sessionVars, saveFails, managerVars, peerVars>>

\* ToolRegistry.get
get(name) == IF name \in DOMAIN tools THEN tools[name] ELSE "undefined"

\* One sendMessage on the session, the model naming any tool.
Next ==
    \/ SendMessage(1)
    \/ \E name \in ToolNames : StreamToolCall(1, name)
    \/ StreamEventAfterAbort(1)
    \/ StreamEnd(1)
    \/ \E id \in 1..MaxIds, type \in {"approved", "denied", "modified"} :
          ApprovalResponse(id, type)
    \/ \E id \in 1..MaxIds : ApprovalTimeout(id)
    \/ \E k \in 1..MaxIds, outcome \in {"ok", "fail"} : HandlerSettle(1, k, outcome)
    \/ Abort
    \/ \E enabled \in BOOLEAN : SetAutoApproveSafe(enabled)

Spec == Init /\ [][Next]_vars

\* Several sendMessage calls on the session, at any time; the model names the
\* tools of the shipped profile.
SessionToolNames == {"calculator", "execute_code"}

SessionNext ==
    \/ \E t \in Turns : SendMessage(t)
    \/ \E t \in Turns, name \in SessionToolNames : StreamToolCall(t, name)
    \/ \E t \in Turns : StreamEventAfterAbort(t)
    \/ \E t \in Turns : StreamEnd(t)
    \/ \E id \in 1..MaxIds, type \in {"approved", "denied", "modified"} :
          ApprovalResponse(id, type)
    \/ \E id \in 1..MaxIds : ApprovalTimeout(id)
    \/ \E t \in Turns, k \in 1..MaxIds, outcome \in {"ok", "fail"} :
          HandlerSettle(t, k, outcome)
    \/ Abort
    \/ \E enabled \in BOOLEAN : SetAutoApproveSafe(enabled)

SessionSpec == Init /\ [][SessionNext]_vars

\* Turns on the session, one after the other, while the provider's stream and
\* the store may fail; the model answers with text and with calls of tools the
\* profile allows or forbids, or of a tool that does not exist.
FaultToolNames == {"calculator", "screenshot", "unknown_tool"}

FaultNext ==
    \/ \E t \in Turns : (\A u \in Turns : turns[u].pc \in {"new", "done"}) /\ SendMessage(t)
    \/ \E t \in Turns, name \in FaultToolNames : StreamToolCall(t, name)
    \/ \E t \in Turns : StreamText(t)
    \/ \E t \in Turns : StreamEventAfterAbort(t)
    \/ \E t \in Turns : StreamEnd(t)
    \/ \E t \in Turns : StreamThrow(t)
    \/ \E t \in Turns, k \in 1..MaxIds, outcome \in {"ok", "fail"} :
          HandlerSettle(t, k, outcome)
    \/ Abort
    \/ \E fails \in BOOLEAN : DatabaseFault(fails)

FaultSpec == Init /\ [][FaultNext]_vars

\* One turn that nobody aborts, in an environment that lets it go on: every
\* provider stream ends, the timer of a pending approval fires unless a
\* response came first, and every tool handler settles.
FairToolNames == {"calculator", "execute_code", "unknown_tool"}

FairTurnNext ==
    \/ SendMessage(1)
    \/ \E name \in FairToolNames : StreamToolCall(1, name)
    \/ StreamEnd(1)
    \/ StreamThrow(1)
    \/ \E id \in 1..MaxIds, type \in {"approved", "denied", "modified"} :
          ApprovalResponse(id, type)
    \/ \E id \in 1..MaxIds : ApprovalTimeout(id)
    \/ \E k \in 1..MaxIds, outcome \in {"ok", "fail"} : HandlerSettle(1, k, outcome)
    \/ DatabaseFault(TRUE)

FairTurnSpec ==
    /\ Init /\ [][FairTurnNext]_vars
    /\ WF_vars(StreamEnd(1))
    /\ WF_vars(\E id \in 1..MaxIds : ApprovalTimeout(id))
    /\ WF_vars(\E k \in 1..MaxIds, outcome \in {"ok", "fail"} : HandlerSettle(1, k, outcome))

\* Turns on the session, one after the other, every model response ending
\* with its usage event; the model calls the calculator.
UsageNext ==
    \/ \E t \in Turns : (\A u \in Turns : turns[u].pc \in {"new", "done"}) /\ SendMessage(t)
    \/ \E t \in Turns : StreamToolCall(t, "calculator")
    \/ \E t \in Turns, usage \in Usages : StreamUsage(t, usage)
    \/ \E t \in Turns : Len(turns[t].usages) = turns[t].modelCalls /\ StreamEnd(t)
    \/ \E t \in Turns, k \in 1..MaxIds, outcome \in {"ok", "fail"} :
          HandlerSettle(t, k, outcome)

UsageSpec == Init /\ [][UsageNext]_vars

\* Turns on the session, one after the other, in which the model names tools
\* that are not registered: one the profile always allows, one it never
\* allows, one it does not list.
UnknownToolNames == {"unknown_always", "unknown_never", "unknown_tool"}

UnknownToolNext ==
    \/ \E t \in Turns : (\A u \in Turns : turns[u].pc \in {"new", "done"}) /\ SendMessage(t)
    \/ \E t \in Turns, name \in UnknownToolNames \cup {"calculator"} : StreamToolCall(t, name)
    \/ \E t \in Turns : StreamEnd(t)
    \/ \E t \in Turns, k \in 1..MaxIds, outcome \in {"ok", "fail"} :
          HandlerSettle(t, k, outcome)

UnknownToolSpec == Init /\ [][UnknownToolNext]_vars

\* Turns on the session, one after the other, whose model responses arrive
\* block by block: tool_use blocks for the calculator with any payload.
BlockNext ==
    \/ \E t \in Turns : (\A u \in Turns : turns[u].pc \in {"new", "done"}) /\ SendMessage(t)
    \/ \E t \in Turns : BlockStart(t, "calculator")
    \/ \E t \in Turns, fragment \in Fragments : BlockDelta(t, fragment)
    \/ \E t \in Turns : BlockStop(t)
    \/ \E t \in Turns : StreamEnd(t)
    \/ \E t \in Turns, k \in 1..MaxIds, outcome \in {"ok", "fail"} :
          HandlerSettle(t, k, outcome)

BlockSpec == Init /\ [][BlockNext]_vars

\* ---- one turn that may be aborted, with its scheduling ----
\* The model stream is finite, the timer of a pending request fires unless a
\* response came first, and a running handler settles.
EndingToolNames == {"calculator", "execute_code"}

EndingNext ==
    \/ SendMessage(1)
    \/ \E name \in EndingToolNames : StreamToolCall(1, name)
    \/ StreamEnd(1)
    \/ \E id \in 1..MaxIds, type \in {"approved", "denied", "modified"} :
          ApprovalResponse(id, type)
    \/ \E id \in 1..MaxIds : ApprovalTimeout(id)
    \/ \E k \in 1..MaxIds, outcome \in {"ok", "fail"} : HandlerSettle(1, k, outcome)
    \/ Abort

EndingSpec ==
    /\ Init /\ [][EndingNext]_vars
    /\ WF_vars(StreamEnd(1))
    /\ WF_vars(\E id \in 1..MaxIds : ApprovalTimeout(id))
    /\ WF_vars(\E k \in 1..MaxIds, outcome \in {"ok", "fail"} : HandlerSettle(1, k, outcome))

\* ---- a session is terminated while it runs a turn ----
TerminateToolNames == {"calculator", "execute_code"}

TerminateNext ==
    \/ SendMessage(1)
    \/ \E t \in Turns : SendMessageNotFound(t)
    \/ \E name \in TerminateToolNames : StreamToolCall(1, name)
    \/ StreamEnd(1)
    \/ \E id \in 1..MaxIds, type \in {"approved", "denied", "modified"} :
          ApprovalResponse(id, type)
    \/ \E id \in 1..MaxIds : ApprovalTimeout(id)
    \/ \E k \in 1..MaxIds, outcome \in {"ok", "fail"} : HandlerSettle(1, k, outcome)
    \/ terminateAgent(1)

TerminateSpec == Init /\ [][TerminateNext]_vars

\* ---- two sessions, each running a turn that prompts for approval ----
PeerToolNames == {"execute_code"}

PeerNext ==
    \/ SendMessage(1)
    \/ \E name \in PeerToolNames : StreamToolCall(1, name)
    \/ StreamEnd(1)
    \/ \E id \in 1..MaxIds + MaxPeerIds, type \in {"approved", "denied", "modified"} :
          ApprovalResponse(id, type)
    \/ \E id \in 1..MaxIds : ApprovalTimeout(id)
    \/ \E k \in 1..MaxIds, outcome \in {"ok", "fail"} : HandlerSettle(1, k, outcome)
    \/ PeerSendMessage
    \/ PeerStreamToolCall
    \/ \E id \in PeerIds : PeerApprovalTimeout(id)
    \/ PeerHandlerSettle
    \/ PeerStreamEnd

PeerSpec == Init /\ [][PeerNext]_vars

\* The manager from its construction on: sessions are created and terminated.
ManagerInit ==
    /\ calls = <<>>
    /\ turns = [t \in Turns |-> NewTurn]
    /\ conversationHistory = <<>>
    /\ turnCount = 0
    /\ abortController = 0
    /\ status = "idle"
    /\ autoApproveSafe = FALSE
    /\ pendingApprovals = <<>>
    /\ listeners = {}
    /\ approvalRequests = <<>>
    /\ events = [t \in Turns |-> <<>>]
    /\ invoked = {}
    /\ gate = <<>>
    /\ completionOrder = <<>>
    /\ aborts = 0
    /\ totalTokens = 0
    /\ totalCost = 0
    /\ saveFails = FALSE
    /\ initialized = FALSE
    /\ activeAgents = {}
    /\ generated = 0
    /\ emitted = NoneEmitted
    /\ lastCall = NoCall
    /\ persisted = [id \in SessionIds |-> 0]
    /\ peer = NewPeer
    /\ tools = <<>>
    /\ lastRegister = NoRegister

ManagerNext ==
    \/ initialize
    \/ \E profileId \in ProfileIds : createAgent(profileId)
    \/ \E agentId \in SessionIds : terminateAgent(agentId)
    \/ terminateAll
    \/ \E fails \in BOOLEAN : DatabaseFault(fails)

ManagerSpec == ManagerInit /\ [][ManagerNext]_vars

\* A registry filled by register calls, as createToolRegistry fills it.
RegistryNext == \E tool \in Tools : register(tool)

RegistrySpec == ManagerInit /\ [][RegistryNext]_vars

\* ---- properties ----
ToolMessages == {p \in 1..Len(conversationHistory) : conversationHistory[p].role = "tool"}

ResultIds(m) == [k \in 1..Len(m.tool_results) |-> m.tool_results[k].tool_call_id]

\* The results stored or emitted for id, over the whole transcript.
ResultsFor(id) ==
    {<<p, k>> \in ToolMessages \X (1..MaxIds) :
        /\ k <= Len(conversationHistory[p].tool_results)
        /\ conversationHistory[p].tool_results[k].tool_call_id = id}

\* C1: every tool Message holds, for the N >= 1 calls of the assistant Message
\* of its round, exactly N results, the i-th with the id of the i-th call,
\* whatever the permission outcomes and the order in which handlers settled.
C1_ToolResultsInCallOrder ==
    \A p \in ToolMessages :
        /\ Len(conversationHistory[p].tool_results) >= 1
        /\ \E q \in 1..(p - 1) :
              /\ conversationHistory[q].role = "assistant"
              /\ conversationHistory[q].turn = conversationHistory[p].turn
              /\ conversationHistory[q].tool_calls = ResultIds(conversationHistory[p])

\* A round of two calls whose handlers settled in the reverse order.
C1_Witness ==
    /\ completionOrder = <<2, 1>>
    /\ \E p \in ToolMessages : ResultIds(conversationHistory[p]) = <<1, 2>>

\* A round mixing a call denied by timeout with an approved call after it.
C1_WitnessMixed ==
    \E p \in ToolMessages :
        /\ ResultIds(conversationHistory[p]) = <<1, 2>>
        /\ gate[1].via = "timeout"
        /\ gate[2].via = "approved"

\* C2: every ToolCall the model emits in a turn gets exactly one ToolResult in
\* the transcript, and no exception escapes the turn loop because of a tool
\* call (stated for the turns that ended without abort()).
C2_OneResultPerCall ==
    \A t \in Turns :
        /\ turns[t].outcome # "threw"
        /\ turns[t].pc = "done" /\ turns[t].outcome # "aborted" =>
              \A q \in 1..Len(conversationHistory) :
                  conversationHistory[q].role = "assistant" /\ conversationHistory[q].turn = t =>
                      \A k \in 1..Len(conversationHistory[q].tool_calls) :
                          Cardinality(ResultsFor(conversationHistory[q].tool_calls[k])) = 1

\* C3: once abort() has aborted a turn's signal, the turn yields no further
\* StreamEvent, and abort() leaves the session status idle.
C3_AbortSilencesTurn ==
    [][/\ \A t \in Turns : turns[t].aborted => events'[t] = events[t]
       /\ aborts' # aborts => status' = "idle"]_vars

\* C4: on one session at most one turn is in flight at any time.
InFlight == {t \in Turns : turns[t].pc \notin {"new", "done"}}

C4_OneTurnInFlight == Cardinality(InFlight) <= 1

Ids == 1..Len(calls)

Invoked(id) == \E x \in invoked : x[1] = id

Checked(id) == gate[id].verdict # "unchecked"

\* C5: a call whose tool has class never in the profile is denied by the
\* permission check and its handler is never invoked.
C5_NeverDeniedNotInvoked ==
    \A id \in Ids :
        tool_permissions(calls[id].name) = "never" =>
            /\ Checked(id) => gate[id].verdict = "denied"
            /\ ~Invoked(id)
            /\ \A x \in ResultsFor(id) :
                  ~conversationHistory[x[1]].tool_results[x[2]].success

\* A never-class call went through the gate and its round was stored.
C5_Witness ==
    \E id \in Ids :
        /\ tool_permissions(calls[id].name) = "never"
        /\ gate[id].verdict = "denied"
        /\ ResultsFor(id) # {}

\* C6: a call whose tool has class always in the profile is allowed and no
\* ApprovalRequest is made for it: it is never pending, nothing is sent on the
\* approval channel and no listener is registered.
C6_AlwaysAllowedNoRequest ==
    \A id \in Ids :
        tool_permissions(calls[id].name) = "always" =>
            /\ Checked(id) => gate[id].verdict = "allowed"
            /\ id \notin SeqToSet(approvalRequests)
            /\ id \notin SeqToSet(pendingApprovals)
            /\ id \notin listeners

\* An always-class call was checked and its handler invoked.
C6_Witness ==
    \E id \in Ids :
        /\ tool_permissions(calls[id].name) = "always"
        /\ gate[id].verdict = "allowed"
        /\ Invoked(id)

AskClass(name) == tool_permissions(name) \in {"ask", "none"}

\* C7: with auto-approve-safe on at the time of the check, an ask-class call
\* of a tool registered as safe is allowed without an ApprovalRequest; an
\* ask-class call of a tool registered as moderate or dangerous gets an
\* ApprovalRequest, and is not allowed before a decision arrives.
C7_AutoApproveSafeOnly ==
    \A id \in Ids :
        AskClass(calls[id].name) /\ has(calls[id].name) /\ Checked(id) =>
            /\ gate[id].auto /\ risk_level(calls[id].name) = "safe" =>
                  /\ gate[id].verdict = "allowed"
                  /\ id \notin SeqToSet(approvalRequests)
            /\ risk_level(calls[id].name) \in {"moderate", "dangerous"} =>
                  /\ id \in SeqToSet(approvalRequests)
                  /\ gate[id].via # "class"
                  /\ gate[id].verdict = "pending" <=> id \in SeqToSet(pendingApprovals)
                  /\ gate[id].verdict = "pending" =>
                        \E t \in Turns : /\ turns[t].pc = "wait"
                                         /\ turns[t].toolCalls[turns[t].idx] = id
                                         /\ id \notin SeqToSet(turns[t].approvedCalls)

\* In one round under auto-approve-safe: a safe ask-class call allowed without
\* a request, and a moderate or dangerous one waiting on its request.
C7_Witness ==
    \E a, b \in Ids :
        /\ AskClass(calls[a].name) /\ risk_level(calls[a].name) = "safe"
        /\ gate[a].auto /\ gate[a].verdict = "allowed"
        /\ AskClass(calls[b].name) /\ risk_level(calls[b].name) \in {"moderate", "dangerous"}
        /\ gate[b].auto /\ gate[b].verdict = "pending"

\* C8: a request that timed out resolved as denied and is no longer pending,
\* and a response with its id arriving afterwards changes nothing.
C8_TimeoutDeniesAndCleans ==
    \A id \in Ids :
        gate[id].via = "timeout" =>
            /\ gate[id].verdict = "denied"
            /\ id \notin SeqToSet(pendingApprovals)
            /\ ~Invoked(id)
            /\ \A type \in {"approved", "denied", "modified"} :
                  ipcResponse(Cur, id, type, autoApproveSafe) = Cur

\* A request timed out.
C8_Witness == \E id \in Ids : gate[id].via = "timeout"

\* The round of id has reached executeParallel.
Executing(id) ==
    \/ ResultsFor(id) # {}
    \/ \E t \in Turns : turns[t].pc = "exec" /\ id \in SeqToSet(turns[t].approvedCalls)

\* C9: a call answered with modified(newInput) is allowed, and its handler is
\* invoked with newInput and never with the input the model emitted.
C9_ModifiedInputExecuted ==
    \A id \in Ids :
        gate[id].via = "modified" =>
            /\ gate[id].verdict = "allowed"
            /\ <<id, OrigInput>> \notin invoked
            /\ Executing(id) => <<id, ModifiedInput>> \in invoked

\* A modified call was executed.
C9_Witness ==
    \E id \in Ids : gate[id].via = "modified" /\ <<id, ModifiedInput>> \in invoked

\* C10: executeParallel returns one result per call in input order, result k
\* with the id of call k and success false exactly when that call's handler
\* threw or its tool is unknown, whatever the siblings did; it never rejects.
C10_ExecuteParallelIsolates ==
    \A t \in Turns :
        LET f == turns[t] IN
        /\ f.executedResults # <<>> =>
              /\ Len(f.executedResults) = Len(f.approvedCalls)
              /\ \A k \in 1..Len(f.approvedCalls) :
                    /\ f.executedResults[k].tool_call_id = f.approvedCalls[k]
                    /\ f.executedResults[k].success <=>
                          (has(calls[f.approvedCalls[k]].name) /\ f.exec[k] = "ok")
        /\ f.outcome = "threw" => f.exec = <<>>

\* A batch of two in which exactly one call failed.
C10_Witness ==
    \E t \in Turns :
        /\ Len(turns[t].executedResults) = 2
        /\ turns[t].executedResults[1].success # turns[t].executedResults[2].success

\* ---- the turn loop as a whole ----
Last(q) == q[Len(q)]

\* The Messages turn t appended, in transcript order.
RECURSIVE TurnMessagesOf(_, _)
TurnMessagesOf(q, t) ==
    IF q = <<>> THEN <<>>
    ELSE IF Head(q).turn = t THEN <<Head(q)>> \o TurnMessagesOf(Tail(q), t)
    ELSE TurnMessagesOf(Tail(q), t)

TurnMessages(t) == TurnMessagesOf(conversationHistory, t)

\* The events executeTurnStreaming itself yielded: those of the consumer
\* without the error events made by the manager's catch block.
RECURSIVE TurnEventsOf(_)
TurnEventsOf(q) ==
    IF q = <<>> THEN <<>>
    ELSE IF Head(q).type = "error" /\ Head(q).error = "exception" THEN TurnEventsOf(Tail(q))
    ELSE <<Head(q)>> \o TurnEventsOf(Tail(q))

TurnEvents(t) == TurnEventsOf(events[t])

ErrorEvents(t) == {k \in 1..Len(events[t]) : events[t][k].type = "error"}

\* C11: a turn that was not aborted and in which every model response
\* requested a tool call makes exactly maxIterations model calls and
\* maxIterations tool rounds, then ends with one error event, its last event,
\* naming the limit; there is never a further model call and nothing is thrown.
C11_IterationCap ==
    \A t \in Turns :
        /\ turns[t].modelCalls <= maxIterations
        /\ turns[t].pc = "done" /\ ~turns[t].aborted /\ turns[t].outcome # "success" =>
              /\ turns[t].outcome = "maxiter"
              /\ turns[t].modelCalls = maxIterations
              /\ turns[t].iterations = maxIterations
              /\ Cardinality(ErrorEvents(t)) = 1
              /\ Last(events[t]) = ErrorEvent("max_iterations")

\* C12: a turn that answered with no tool calls after k < maxIterations tool
\* rounds appended one user Message, k pairs of an assistant Message with the
\* round's calls and a tool Message with the round's results, and one final
\* assistant Message without tool calls holding the response's text (empty or
\* not); the last event the turn yielded is a usage event.
C12_TranscriptShape ==
    \A t \in Turns :
        turns[t].pc = "done" /\ turns[t].outcome = "success" =>
            LET ms == TurnMessages(t)
                k == turns[t].iterations
            IN /\ k < maxIterations
               /\ Len(ms) = 2 * k + 2
               /\ ms[1].role = "user"
               /\ \A j \in 1..k :
                     /\ ms[2 * j].role = "assistant"
                     /\ ms[2 * j].tool_calls # <<>>
                     /\ ms[2 * j + 1].role = "tool"
                     /\ ResultIds(ms[2 * j + 1]) = ms[2 * j].tool_calls
               /\ Last(ms) = Message("assistant", t, turns[t].turnText, <<>>, <<>>)
               /\ Last(TurnEvents(t)).type = "usage"
               /\ \A e \in 1..(Len(TurnEvents(t)) - 1) : TurnEvents(t)[e].type # "usage"

\* A turn with a tool round that ended on a response with no text at all.
C12_Witness ==
    \E t \in Turns :
        /\ turns[t].pc = "done" /\ turns[t].outcome = "success"
        /\ turns[t].iterations >= 1
        /\ turns[t].turnText = <<>>
        /\ ~turns[t].aborted

\* ---- ToolRegistry ----
\* C13: register with a name already in the registry fails and leaves the
\* registry as it was: the same names, and get(name) still the tool
\* registered first.
C13_DuplicateRegisterFails ==
    [][\A name \in DOMAIN tools :
          lastRegister' # lastRegister /\ lastRegister'.name = name =>
              /\ lastRegister'.threw
              /\ DOMAIN tools' = DOMAIN tools
              /\ get(name)' = get(name)
              /\ tools' = tools]_vars

\* A second tool was offered under a registered name and the first is kept.
C13_Witness ==
    /\ lastRegister.threw
    /\ get(lastRegister.name).impl # lastRegister.impl

\* ---- the transcript's content ----
\* A Message as it reads: its tool_calls are the ToolCall objects themselves.
Deref(m, cs) == [m EXCEPT !.tool_calls = [k \in 1..Len(m.tool_calls) |-> cs[m.tool_calls[k]]]]

Transcript == [p \in 1..Len(conversationHistory) |-> Deref(conversationHistory[p], calls)]

\* C14: the transcript is append-only: every step leaves the Messages already
\* appended as they read, the earlier transcript being a prefix of the later.
C14_TranscriptAppendOnly ==
    [][/\ Len(Transcript') >= Len(Transcript)
       /\ SubSeq(Transcript', 1, Len(Transcript)) = Transcript]_vars

\* ---- provider faults ----
\* C15: a turn whose provider stream failed (and that was not aborted, its
\* save not failing) ended with the provider's error event as its last event,
\* the session is idle once no turn is in flight, and a following turn that
\* got an answer without faults ended with its usage event.
C15_ProviderFaultTerminal ==
    \A t \in Turns :
        /\ turns[t].pc = "done"
        /\ turns[t].streamErrors > 0
        /\ ~turns[t].aborted
        /\ ~turns[t].saveFailed
        => /\ Last(events[t]) = ErrorEvent("provider")
           /\ (\A u \in Turns : turns[u].pc \in {"new", "done"}) => status = "idle"
           /\ \A u \in Turns :
                 /\ u > t
                 /\ turns[u].pc = "done" /\ turns[u].outcome = "success"
                 /\ turns[u].streamErrors = 0 /\ ~turns[u].saveFailed
                 => Last(events[u]).type = "usage"

\* C16: a started turn that is not aborted ends; when it has ended the last
\* event of its sequence is a usage event or an error event, and the sequence
\* gets no further event.
C16_TerminalEvent ==
    /\ [](\A t \in Turns :
             turns[t].pc = "done" /\ ~turns[t].aborted =>
                 /\ events[t] # <<>>
                 /\ Last(events[t]).type \in {"usage", "error"})
    /\ [][\A t \in Turns : turns[t].pc = "done" => events'[t] = events[t]]_vars
    /\ \A t \in Turns : (turns[t].pc # "new") ~> (turns[t].pc = "done")

\* A turn ended at the iteration limit after the provider stream had failed.
C16_Witness ==
    \E t \in Turns :
        /\ turns[t].pc = "done" /\ ~turns[t].aborted
        /\ turns[t].outcome = "maxiter"
        /\ turns[t].streamErrors > 0

\* C17: the cancellation is not reported as an error: once the signal of a
\* turn is aborted, streamWithTools yields no error event, and no event of the
\* model stream (text, tool call, provider error) is added to the turn's
\* sequence.
C17_AbortIsNotAnError ==
    [][\A t \in Turns :
          turns[t].aborted =>
              /\ turns'[t].streamErrors = turns[t].streamErrors
              /\ \A k \in (Len(events[t]) + 1)..Len(events'[t]) :
                    /\ events'[t][k] # ErrorEvent("provider")
                    /\ events'[t][k].type \notin {"text", "tool_call"}]_vars

\* The stream of an aborted turn ended in silence and the turn got no error
\* event at all.
C17_Witness ==
    \E t \in Turns :
        /\ turns[t].aborted
        /\ turns[t].pc = "done" /\ turns[t].outcome = "success"
        /\ ErrorEvents(t) = {}

CreateAgentCall == lastCall' # lastCall /\ lastCall'.op = "createAgent"

\* C19: the live sessions never exceed the cap: a createAgent call made when
\* the manager is not initialized or the live sessions are at the cap fails,
\* and a session is only ever added below the cap, however createAgent and
\* terminateAgent calls follow each other.
C19_LiveSessionsWithinCap ==
    /\ [](Cardinality(activeAgents) <= maxConcurrentAgents)
    /\ [][CreateAgentCall /\ (~initialized \/ Cardinality(activeAgents) >= maxConcurrentAgents)
              => (lastCall'.threw /\ activeAgents' = activeAgents)]_vars
    /\ [][~(activeAgents' \subseteq activeAgents)
              => (/\ initialized
                  /\ Cardinality(activeAgents) < maxConcurrentAgents
                  /\ Cardinality(activeAgents') = Cardinality(activeAgents) + 1)]_vars

\* createAgent failed for the cap alone, after sessions had been terminated
\* and others created.
C19_Witness ==
    /\ Cardinality(activeAgents) = maxConcurrentAgents
    /\ lastCall.op = "createAgent" /\ lastCall.threw
    /\ lastCall.profile = "general"
    /\ initialized
    /\ 1 \notin activeAgents

\* C20: a createAgent call that fails leaves the live sessions as they were
\* and emits no created notification (no session is constructed).
C20_FailedCreateLeavesNoState ==
    [][CreateAgentCall /\ lastCall'.threw =>
          /\ activeAgents' = activeAgents
          /\ emitted' = emitted
          /\ generated' = generated]_vars

\* createAgent failed for an unknown profile alone, with sessions live.
C20_Witness ==
    /\ lastCall.op = "createAgent" /\ lastCall.threw
    /\ lastCall.profile = "no_such_profile"
    /\ initialized
    /\ activeAgents # {}
    /\ Cardinality(activeAgents) < maxConcurrentAgents

\* ---- the manager's notifications ----
StatusChanges(t, s) ==
    {k \in 1..Len(turns[t].notified) :
        /\ turns[t].notified[k].name = "agent:status-change"
        /\ turns[t].notified[k].status = s}

\* C21: a sendMessage sets the session to thinking and emits
\* status-change(thinking) before any StreamEvent of the turn; the step in
\* which the turn ends (it returned, it ended with an error event, it threw, or
\* the save after it threw) sets the session to idle and emits
\* status-change(idle); and every status-change(thinking) is eventually
\* followed by a status-change(idle).
C21_StatusChangeBothWays ==
    /\ [][\A t \in Turns :
             turns[t].pc = "new" /\ turns'[t].pc # "new" =>
                /\ status' = "thinking"
                /\ events'[t] = <<>>
                /\ StatusChanges(t, "thinking")' # {}]_vars
    /\ [](\A t \in Turns :
             events[t] # <<>> =>
                \E k \in StatusChanges(t, "thinking") : turns[t].notified[k].at = 0)
    /\ [][\A t \in Turns :
             turns[t].pc # "done" /\ turns'[t].pc = "done" =>
                /\ status' = "idle"
                /\ Cardinality(StatusChanges(t, "idle")') > Cardinality(StatusChanges(t, "idle"))]_vars
    /\ \A t \in Turns :
          (StatusChanges(t, "thinking") # {})
             ~> (\E i \in StatusChanges(t, "thinking"), j \in StatusChanges(t, "idle") : i < j)

\* The turn threw (the permission check of an unknown tool) and the manager's
\* catch block announced idle.
C21_Witness ==
    /\ turns[1].outcome = "threw"
    /\ StatusChanges(1, "thinking") # {}
    /\ StatusChanges(1, "idle") # {}
    /\ status = "idle"

TerminateCall(op) == lastCall' # lastCall /\ lastCall'.op = op

\* C22: terminateAgent removes a live session only after its transcript was
\* persisted (a failed save removes nothing), and after terminateAll has
\* completed none of the sessions live at the call is live, also when
\* persisting fails.
C22_TerminateAllEmptiesLiveSet ==
    /\ [][TerminateCall("terminateAgent") =>
             IF lastCall'.threw THEN activeAgents' = activeAgents
             ELSE activeAgents' = activeAgents \ {lastCall'.id}]_vars
    /\ [][TerminateCall("terminateAll") => activeAgents' \cap activeAgents = {}]_vars

\* ---- token and cost accounting ----
\* The usage events the cost updates of turn t have covered.
Accounted(t) == SubSeq(turns[t].usages, 1, turns[t].accounted)

RECURSIVE SumOver(_, _)
SumOver(f(_), S) ==
    IF S = {} THEN 0
    ELSE LET x == CHOOSE y \in S : TRUE IN f(x) + SumOver(f, S \ {x})

TokensOf(t) == SumUsage(Accounted(t)).input_tokens + SumUsage(Accounted(t)).output_tokens

CostOf(t) == calculateCost(SumUsage(Accounted(t)))

\* C23: the session's total_tokens is the sum of the usage of the model
\* responses received, each counted once, and total_cost is the linear formula
\* on exactly those tokens; every response is accounted when it ends.
C23_TokensCountedOnce ==
    /\ totalTokens = SumOver(TokensOf, Turns)
    /\ totalCost = SumOver(CostOf, Turns)
    /\ \A t \in Turns : turns[t].pc # "stream" => turns[t].accounted = Len(turns[t].usages)

\* ---- AgentSession.status ----
StatusTransitions ==
    {<<"idle", "thinking">>, <<"thinking", "executing_tools">>,
     <<"executing_tools", "thinking">>, <<"executing_tools", "waiting_approval">>,
     <<"waiting_approval", "executing_tools">>, <<"thinking", "idle">>}

\* C24: the status is executing_tools while the calls of a round are gated and
\* executed, waiting_approval exactly while a permission check is suspended on
\* a human decision, and it changes only along
\* idle -> thinking -> (executing_tools <-> thinking)* -> idle.
C24_StatusStateMachine ==
    /\ [](\A t \in Turns :
             /\ turns[t].pc = "exec" => status = "executing_tools"
             /\ turns[t].pc = "wait" => status = "waiting_approval")
    /\ [](status = "waiting_approval" => \E t \in Turns : turns[t].pc = "wait")
    /\ [][status' # status => <<status, status'>> \in StatusTransitions]_vars

\* ---- unknown tool names ----
\* The assistant Messages that carry the call id.
Requesting(id) ==
    {q \in 1..Len(conversationHistory) :
        /\ conversationHistory[q].role = "assistant"
        /\ id \in SeqToSet(conversationHistory[q].tool_calls)}

\* C25: a call of an unregistered tool, whatever class the profile gives its
\* name, never makes the permission check or the turn throw, and once its
\* turn has ended the call has exactly one ToolResult, a failed one, the turn
\* having gone on to its regular end.
C25_UnknownToolContained ==
    \A id \in Ids :
        ~has(calls[id].name) =>
            /\ gate[id].verdict # "threw"
            /\ \A q \in Requesting(id) :
                  LET t == conversationHistory[q].turn IN
                  /\ turns[t].outcome # "threw"
                  /\ turns[t].pc = "done" =>
                        /\ turns[t].outcome \in {"success", "maxiter"}
                        /\ Cardinality(ResultsFor(id)) = 1
                        /\ \A x \in ResultsFor(id) :
                              ~conversationHistory[x[1]].tool_results[x[2]].success

\* ---- the order of the permission checks ----
RequestsFor(id) == {k \in 1..Len(approvalRequests) : approvalRequests[k] = id}

\* The checks of the current round of every turn ran in call order, each
\* starting after the one before it had resolved.
ChecksInCallOrder ==
    \A t \in Turns : \A i, j \in 1..Len(turns[t].toolCalls) :
        i < j /\ Checked(turns[t].toolCalls[j]) =>
            gate[turns[t].toolCalls[i]].verdict \notin {"unchecked", "pending"}

\* C26: the permission checks of a round run one after another in call
\* order, so the session has at most one pending ApprovalRequest at any time
\* and at most one ApprovalRequest is ever made for a ToolCall id.
C26_OnePendingRequest ==
    /\ ChecksInCallOrder
    /\ Len(pendingApprovals) <= 1
    /\ \A id \in Ids : Cardinality(RequestsFor(id)) <= 1

\* ---- tool_use blocks ----
ToolCallEvents(t, id) ==
    {k \in 1..Len(events[t]) : events[t][k].type = "tool_call" /\ events[t][k].id = id}

ParseErrorEvents(t) ==
    {k \in 1..Len(events[t]) : events[t][k].type = "error" /\ events[t][k].error = "parse"}

Parses(payload) == payload = <<>> \/ JSONparse(payload) # "throw"

\* The blocks of turn t that were complete and whose payload did not parse.
Dropped(t) ==
    {k \in 1..Len(turns[t].blocks) :
        turns[t].blocks[k].stopped /\ ~Parses(turns[t].blocks[k].accumulatedInput)}

\* C27: a tool_use block gives no event before it is complete; once complete
\* it gave exactly one: a tool_call event if its payload parses (an empty
\* payload is the empty input), else an error event and no tool_call event.
\* A dropped call is never checked by the gate, never executed and has no
\* result.
C27_OneEventPerBlock ==
    \A t \in Turns :
        /\ \A k \in 1..Len(turns[t].blocks) :
              LET block == turns[t].blocks[k] IN
              /\ Cardinality(ToolCallEvents(t, block.id)) =
                    IF block.stopped /\ Parses(block.accumulatedInput) THEN 1 ELSE 0
              /\ ~(block.stopped /\ Parses(block.accumulatedInput)) =>
                    /\ ~Checked(block.id)
                    /\ ~Invoked(block.id)
                    /\ ResultsFor(block.id) = {}
              /\ block.stopped /\ Parses(block.accumulatedInput) =>
                    calls[block.id].input = "{}"
        /\ Cardinality(ParseErrorEvents(t)) = Cardinality(Dropped(t))

\* A response with two blocks: the first did not parse and was dropped, the
\* second was executed; the turn went on to its end.
C27_Witness ==
    \E t \in Turns :
        /\ Len(turns[t].blocks) = 2
        /\ Dropped(t) = {1}
        /\ ResultsFor(turns[t].blocks[2].id) # {}
        /\ turns[t].pc = "done"

\* C28: once abort() has aborted a turn's signal, that turn appends no further
\* Message to the transcript.
C28_AbortFreezesTranscript ==
    [][\A t \in Turns : turns[t].aborted => TurnMessages(t)' = TurnMessages(t)]_vars

\* ---- a failing store ----
ErrorNotifications(t) ==
    {k \in 1..Len(turns[t].notified) : turns[t].notified[k].name = "agent:error"}

\* C29: when saveSession fails at the end of a turn, the transcript and the
\* SessionContext (turn count, total tokens, total cost) are as they were
\* when it was called, the failure is reported by an error notification and
\* an error event with the session idle, and the session stays live.
C29_SaveFailureNotFatal ==
    [][\A t \in Turns :
          ~turns[t].saveFailed /\ turns'[t].saveFailed =>
             /\ conversationHistory' = turns'[t].beforeSave.hist
             /\ totalTokens' = turns'[t].beforeSave.totalTokens
             /\ totalCost' = turns'[t].beforeSave.totalCost
             /\ turnCount' = turnCount
             /\ SubSeq(conversationHistory', 1, Len(conversationHistory)) = conversationHistory
             /\ status' = "idle"
             /\ Cardinality(ErrorNotifications(t)') = Cardinality(ErrorNotifications(t)) + 1
             /\ Last(events'[t]) = ErrorEvent("exception")
             /\ activeAgents' = activeAgents
             /\ 1 \in activeAgents']_vars

\* The save of the first turn failed; the session then took a second turn,
\* which ended with its final response and was saved.
C29_Witness ==
    /\ turns[1].saveFailed /\ turns[1].outcome = "success"
    /\ turns[2].pc = "done" /\ turns[2].outcome = "success" /\ ~turns[2].saveFailed
    /\ Len(TurnMessages(2)) >= 2
    /\ status = "idle"

\* ---- the auto-approve-safe flag ----
\* C30: every permission check uses the flag as it is when the check starts:
\* an ask-class call of a registered tool is allowed without a request if the
\* flag is on and the tool is safe, and gets a request otherwise; a
\* setAutoApproveSafe call leaves the pending requests, their listeners and
\* the checks already made as they are.
C30_FlagReadAtEachCheck ==
    /\ [][\A id \in Ids :
             ~Checked(id) /\ gate'[id].verdict # "unchecked" =>
                /\ gate'[id].auto = autoApproveSafe
                /\ AskClass(calls[id].name) /\ has(calls[id].name) =>
                      IF autoApproveSafe /\ getPermission(calls[id].name) = "safe"
                      THEN /\ gate'[id].verdict = "allowed"
                           /\ id \notin SeqToSet(approvalRequests')
                      ELSE /\ gate'[id].verdict = "pending"
                           /\ id \in SeqToSet(pendingApprovals')]_vars
    /\ [][autoApproveSafe' # autoApproveSafe =>
             /\ pendingApprovals' = pendingApprovals
             /\ listeners' = listeners
             /\ approvalRequests' = approvalRequests
             /\ gate' = gate]_vars

\* Two read_note calls in one round: the first was prompted with the flag off
\* and approved by the user; the flag was switched on while that request was
\* pending, and the second was allowed without a request.
C30_Witness ==
    /\ Len(calls) = 2
    /\ calls[1].name = "read_note" /\ calls[2].name = "read_note"
    /\ turns[1].toolCalls = <<1, 2>>
    /\ ~gate[1].auto /\ gate[1].via = "approved"
    /\ gate[2].auto /\ gate[2].via = "class" /\ gate[2].verdict = "allowed"
    /\ approvalRequests = <<1>>

\* ---- tool_result events ----
ToolResultEvents(t, id) ==
    {k \in 1..Len(events[t]) : events[t][k].type = "tool_result" /\ events[t][k].id = id}

\* The ids of the tool_call events of turn t.
CalledIn(t) == {events[t][k].id : k \in {j \in 1..Len(events[t]) : events[t][j].type = "tool_call"}}

\* The calls of the round of id: those of the assistant Message that carries it.
RoundOf(id) ==
    UNION {SeqToSet(conversationHistory[q].tool_calls) : q \in Requesting(id)}

Settled(id) ==
    /\ gate[id].verdict \in {"allowed", "denied"}
    /\ gate[id].verdict = "allowed" /\ has(calls[id].name) => id \in SeqToSet(completionOrder)

\* C31: in a turn that is not aborted every tool_call event is followed by
\* exactly one tool_result event with its id; the tool_result events of a
\* round come in call order, when every call of the round has settled, and
\* before the next model call is made.
C31_OneResultEventPerCall ==
    /\ [](\A t \in Turns : \A id \in CalledIn(t) :
             /\ Cardinality(ToolResultEvents(t, id)) <= 1
             /\ \A r \in ToolResultEvents(t, id) :
                   /\ \A c \in ToolCallEvents(t, id) : c < r
                   /\ \A other \in RoundOf(id) :
                         /\ Settled(other)
                         /\ ToolResultEvents(t, other) # {}
                         /\ \A c \in ToolCallEvents(t, id), d \in ToolCallEvents(t, other),
                               s \in ToolResultEvents(t, other) : c < d => r < s
             /\ turns[t].pc = "done" /\ ~turns[t].aborted =>
                   Cardinality(ToolResultEvents(t, id)) = 1)
    /\ [][\A t \in Turns :
             turns'[t].modelCalls > turns[t].modelCalls /\ turns[t].modelCalls > 0
             /\ ~turns'[t].aborted =>
                \A id \in CalledIn(t)' : ToolResultEvents(t, id)' # {}]_vars

\* ---- execution after the gate ----
InvocationsOf(id) == {x \in invoked : x[1] = id}

NoDuplicates(q) == \A i, j \in 1..Len(q) : q[i] = q[j] => i = j

\* C32: a handler is invoked only for an allowed call and only when every
\* call of its round has been decided by the permission check; the approved
\* calls of a round are handed to the executor once each, an invocation is
\* never repeated, and an approved call whose round was executed was invoked.
C32_ExecutionAfterAllChecks ==
    /\ [](\A id \in Ids :
             Invoked(id) =>
                /\ gate[id].verdict = "allowed"
                /\ \A other \in RoundOf(id) : gate[other].verdict \in {"allowed", "denied"})
    /\ [](\A t \in Turns :
             /\ NoDuplicates(turns[t].approvedCalls)
             /\ Len(turns[t].exec) \in {0, Len(turns[t].approvedCalls)})
    /\ [](\A id \in Ids :
             ResultsFor(id) # {} /\ gate[id].verdict = "allowed" /\ has(calls[id].name) =>
                Cardinality(InvocationsOf(id)) = 1)
    /\ [][\A id \in Ids : Invoked(id) => InvocationsOf(id)' = InvocationsOf(id)]_vars

\* A round of two calls: the first was allowed by its class, the second by
\* the user after a prompt; both handlers ran and the round was stored.
C32_Witness ==
    \E t \in Turns :
        /\ turns[t].approvedCalls = <<1, 2>>
        /\ gate[1].via = "class" /\ gate[2].via = "approved"
        /\ Invoked(1) /\ Invoked(2)
        /\ ResultsFor(1) # {} /\ ResultsFor(2) # {}

\* ---- denied calls ----
StoredResults(id) ==
    {conversationHistory[x[1]].tool_results[x[2]] : x \in ResultsFor(id)}

\* The tool Messages of turn t.
ToolMessagesOf(t) == {p \in ToolMessages : conversationHistory[p].turn = t}

\* C33: a call the permission check denied (by its class, by the user, by
\* the timeout) is never invoked and its stored result is the failed result
\* with the reason 'Permission denied by user'; the allowed siblings of its
\* round are executed, and when the round with the denial is stored the turn
\* makes its next model call, unless it was aborted or is at the iteration
\* limit, as after any round.
C33_DenialIsAFailedResult ==
    /\ [](\A id \in Ids :
             gate[id].verdict = "denied" =>
                /\ ~Invoked(id)
                /\ StoredResults(id) \subseteq {ToolResult(id, FALSE, "Permission denied by user")}
                /\ ResultsFor(id) # {} =>
                      \A other \in RoundOf(id) :
                          /\ ResultsFor(other) # {}
                          /\ gate[other].verdict = "allowed" /\ has(calls[other].name) =>
                                /\ Invoked(other)
                                /\ \A r \in StoredResults(other) : r.error # "Permission denied by user")
    /\ [][\A t \in Turns :
             (\E p \in ToolMessagesOf(t)' \ ToolMessagesOf(t) :
                 \E k \in 1..Len(conversationHistory'[p].tool_results) :
                     conversationHistory'[p].tool_results[k].error = "Permission denied by user")
             => \/ turns'[t].pc = "stream" /\ turns'[t].modelCalls = turns[t].modelCalls + 1
                \/ turns'[t].pc = "done" /\ turns'[t].outcome \in {"aborted", "maxiter"}]_vars

\* A round of two calls: the user denied the first, the second was executed
\* and succeeded; the turn then called the model again.
C33_Witness ==
    \E t \in Turns :
        /\ Len(calls) = 2
        /\ gate[1].via = "denied" /\ gate[1].verdict = "denied"
        /\ RoundOf(1) = {1, 2}
        /\ Invoked(2)
        /\ \E r \in StoredResults(2) : r.success
        /\ StoredResults(1) # {}
        /\ turns[t].modelCalls = 2 /\ turns[t].pc = "stream" /\ ~turns[t].aborted

\* ---- pending requests at the end of a turn ----
\* C34: when a turn has ended (with its final response, an error, at the
\* iteration limit or by abort) the session's permission manager has no
\* pending ApprovalRequest.
C34_NoPendingAfterTurn ==
    \A t \in Turns : turns[t].pc = "done" => pendingApprovals = <<>>

\* The requests awaiting a response, in either session.
Pending == SeqToSet(pendingApprovals) \cup peer.pendingApprovals

ResponseStep == \E id \in 1..MaxIds + MaxPeerIds, type \in {"approved", "denied", "modified"} :
                   ApprovalResponse(id, type)

\* C35: an ApprovalResponse with id X resolves only the pending request X: every
\* other pending request, of the same or of the other session, stays pending,
\* and a session that did not issue X is left as it was; and no step of one
\* session changes the other session's transcript, status or pending approvals.
C35_ResponseResolvesOwnRequestOnly ==
    [][/\ \A id \in 1..MaxIds + MaxPeerIds, type \in {"approved", "denied", "modified"} :
             ApprovalResponse(id, type) =>
                 /\ \A y \in Pending \ {id} : y \in Pending'
                 /\ (id \notin SeqToSet(pendingApprovals)) => UNCHANGED sessionVars
                 /\ (id \notin peer.pendingApprovals) => peer' = peer
       /\ (peer' # peer) => UNCHANGED <<conversationHistory, status, pendingApprovals>>
       /\ (sessionVars' # sessionVars) => peer' = peer]_vars

\* Both sessions had a request approved while a later request of each is pending.
C35_Witness ==
    /\ Len(calls) = 2
    /\ gate[1].via = "approved"
    /\ pendingApprovals = <<2>>
    /\ peer.verdict[MaxIds + 1] = "allowed"
    /\ peer.pendingApprovals = {MaxIds + 2}

\* ---- the idle status ----
\* A handler the turn invoked has not settled yet.
HandlerRunning(t) ==
    /\ turns[t].pc = "exec"
    /\ \E k \in 1..Len(turns[t].exec) : turns[t].exec[k] = "running"

\* C36: whenever the session status is idle no turn is in flight: no handler of
\* the session is running, and until the next sendMessage no Message is appended
\* and no StreamEvent is yielded.
C36_IdleMeansNoTurnInFlight ==
    /\ [](status = "idle" => InFlight = {} /\ \A t \in Turns : ~HandlerRunning(t))
    /\ [][status = "idle" /\ turnCount' = turnCount =>
              events' = events /\ conversationHistory' = conversationHistory]_vars

\* ---- the transcript between turns ----
\* The Message at position p carries tool calls and the Message behind it is
\* a tool Message with exactly one result per call, in the calls' order.
Answered(p) ==
    /\ p < Len(conversationHistory)
    /\ conversationHistory[p + 1].role = "tool"
    /\ ResultIds(conversationHistory[p + 1]) = conversationHistory[p].tool_calls

\* C37: whenever no turn is in flight, every assistant Message of the transcript
\* that carries tool calls is immediately followed by one tool Message holding
\* exactly one result per call.
C37_TranscriptProviderCompatible ==
    InFlight = {} =>
        \A p \in 1..Len(conversationHistory) :
            conversationHistory[p].role = "assistant" /\ conversationHistory[p].tool_calls # <<>>
                => Answered(p)

\* ---- repeated termination ----
\* C38: for every session id the terminated notification is emitted at most
\* once and a termination persists the transcript at most once, however
\* terminateAgent and terminateAll calls on the id follow one another.
C38_TerminatedAtMostOnce ==
    \A id \in SessionIds : emitted.terminated[id] <= 1 /\ persisted[id] <= 1

\* terminateAgent was called on a session that had been terminated before.
C38_Witness ==
    /\ lastCall.op = "terminateAgent"
    /\ ~lastCall.found
    /\ emitted.terminated[lastCall.id] = 1
    /\ persisted[lastCall.id] = 1

\* ---- termination of a session that runs a turn ----
\* The notifications the manager emitted for the session's turns.
Notified == [t \in Turns |-> turns[t].notified]

\* C39: once the terminated notification of the session has been emitted, no
\* further StreamEvent is yielded and no further status-change notification is
\* emitted for it.
C39_SilentAfterTerminated ==
    [][emitted.terminated[1] >= 1 => events' = events /\ Notified' = Notified]_vars

\* ---- the end of a turn ----
\* C40: every started turn eventually terminates: its event stream has ended
\* and the session is idle again, given that the model stream is finite, every
\* handler settles and every pending request gets a response or its timeout.
C40_TurnTerminates ==
    \A t \in Turns : (turns[t].pc # "new") ~> (turns[t].pc = "done" /\ status = "idle")

\* A turn ended after one of its requests had timed out and a call had run.
C40_Witness ==
    \E t \in Turns :
        /\ turns[t].pc = "done" /\ status = "idle"
        /\ \E id \in Ids : gate[id].via = "timeout"
        /\ \E id \in Ids : Invoked(id)

====
